---- MODULE Spec2Model ----
(***************************************************************************)
(* Meeting Summarizer: the upload form of FrontEnd/src/App.jsx (file       *)
(* selection, upload, response handling) and the backend upload pipeline   *)
(* (Gatekeeper, staging, Normalizer) that answers POST /api/upload.        *)
(*                                                                         *)
(* Strings that the program inspects character by character (file names,   *)
(* transcripts) are sequences of one-character strings.  JavaScript's null *)
(* and undefined are the values Null and Undefined.                        *)
(***************************************************************************)
EXTENDS Integers, Sequences, FiniteSets, TLC

\* ---------------------------------------------------------------- bounds
\* File sizes tried lie within SizeSlack bytes of the 25 MiB limit.
SizeSlack == 1
\* Cap on the requests outstanding at once (the model's guard, not the UI's).
MaxInFlight == 2
\* Longest key_decisions / action_items list the summarization service returns.
MaxListLen == 2

\* ------------------------------------------------------- JavaScript values
Null == "<null>"
Undefined == "<undefined>"

\* JavaScript truthiness of a scalar.
Truthy(v) == v \notin {Null, Undefined, "", "false"}

\* JavaScript a || b.
OrElse(a, b) == IF Truthy(a) THEN a ELSE b

\* --------------------------------------------------------------- strings
UpperChars == <<"A", "C", "F", "L", "M", "P", "T", "V", "W", "X">>
LowerChars == <<"a", "c", "f", "l", "m", "p", "t", "v", "w", "x">>

toLowerCaseChar(c) ==
    IF \E i \in 1..Len(UpperChars) : UpperChars[i] = c
    THEN LowerChars[CHOOSE i \in 1..Len(UpperChars) : UpperChars[i] = c]
    ELSE c

\* Mutant: the name is compared without lower-casing it.
toLowerCase_omitted(s) == s

\* String.prototype.toLowerCase
toLowerCase(s) == [i \in 1..Len(s) |-> toLowerCaseChar(s[i])]

\* String.prototype.lastIndexOf: 0-based index of the last occurrence, or -1.
lastIndexOf(s, ch) ==
    IF \E i \in 1..Len(s) : s[i] = ch
    THEN (CHOOSE i \in 1..Len(s) : s[i] = ch /\ \A j \in (i+1)..Len(s) : s[j] # ch) - 1
    ELSE 0 - 1

\* String.prototype.substring(start): a negative start counts as 0.
substring(s, start) ==
    LET b == IF start < 0 THEN 0 ELSE IF start > Len(s) THEN Len(s) ELSE start
    IN  SubSeq(s, b + 1, Len(s))

\* ----------------------------------------------------------------- files
MaxFileSize == 25 * 1024 * 1024

allowedExtensions ==
    { <<".", "m", "p", "3">>, <<".", "w", "a", "v">>,
      <<".", "m", "4", "a">>, <<".", "f", "l", "a", "c">> }

FileNames ==
    { <<"a", ".", "m", "p", "3">>,
      <<"b", ".", "W", "A", "V">>,
      <<"c", ".", "M", "4", "a">>,
      <<".", "f", "l", "a", "c">>,
      <<"n", ".", "t", "x", "t">>,
      <<"m", "p", "3">>,
      <<"a", ".", "m", "p", "3", ".", "t", "x", "t">>,
      <<"w", "a", "v", ".">> }

FileSizes == (MaxFileSize - SizeSlack)..(MaxFileSize + SizeSlack)

\* The File objects a change event can carry.
Files == [name : FileNames, size : FileSizes]

\* useState(null): no file held / no file in the event.
NoFile == [name |-> <<>>, size |-> 0 - 1]

\* ---------------------------------------------------------- error strings
ErrFormat == "Please select MP3, WAV, M4A, or FLAC files only"
ErrSize == "File too large. Maximum size is 25MB"
ErrNoFile == "Please select an audio file"
ErrProcessing == "Processing failed"
ErrGeneric == "An error occurred during processing"
\* A message chosen by the server.
ErrServer == "Transcription failed"

\* ------------------------------------------------------------- responses
\* response.data of POST /api/upload as the client reads it.
ResponseData == [success : {"true", "false", Undefined},
                 error   : {Undefined, "", ErrServer}]

\* A body that parses to null: reading a property of it throws.
NullData == [success |-> Null, error |-> Null]

\* How the awaited axios.post settles.
Settlements ==
    [kind : {"2xx"}, data : ResponseData \cup {NullData}]
      \cup [kind : {"httpError"}, data : ResponseData \cup {NullData}]
      \cup [kind : {"networkError", "timeout"}, data : {NullData}]

\* ------------------------------------------------- backend: data model
\* The transcripts the speech-to-text provider returns.
Transcripts ==
    { <<"W", "e", " ", "o", "k">>,
      <<" ", "g", "o", " ", " ", "o", "n", " ">> }

\* The i-th decision / action item of an upstream payload.
Decision(i) == <<"decision", i>>
ActionItem(i) == [task |-> <<"task", i>>, owner |-> "Owner",
                  deadline |-> "Friday", priority |-> "High"]

\* A list field of the upstream payload: absent, of the wrong type, or a list.
UpstreamDecisionLists ==
    [kind : {"undefined", "string"}, items : {<<>>}]
      \cup { [kind |-> "list", items |-> [i \in 1..k |-> Decision(i)]] : k \in 0..MaxListLen }

UpstreamActionLists ==
    [kind : {"undefined", "string"}, items : {<<>>}]
      \cup { [kind |-> "list", items |-> [i \in 1..k |-> ActionItem(i)]] : k \in 0..MaxListLen }

UpstreamCounts ==
    [kind : {"undefined"}, n : {0}] \cup [kind : {"number"}, n : 0..(MaxListLen + 1)]

UpstreamStrings == {Undefined, "Executive summary"}

\* What the summarization call can return: structured data, possibly partial
\* or malformed, or free text, or no answer at all.
StructuredPayloads ==
    [kind : {"structured"},
     text : {""},
     summary : UpstreamStrings,
     key_decisions : UpstreamDecisionLists,
     action_items : UpstreamActionLists,
     next_steps : { [kind |-> "undefined", items |-> <<>>],
                    [kind |-> "list", items |-> <<"Next step 1">>] },
     total_decisions : UpstreamCounts,
     total_action_items : UpstreamCounts,
     key_topics : { [kind |-> "list", items |-> <<"Topic 1">>] }]

TextPayload ==
    [kind |-> "text", text |-> "Here is your summary",
     summary |-> Undefined,
     key_decisions |-> [kind |-> "undefined", items |-> <<>>],
     action_items |-> [kind |-> "undefined", items |-> <<>>],
     next_steps |-> [kind |-> "undefined", items |-> <<>>],
     total_decisions |-> [kind |-> "undefined", n |-> 0],
     total_action_items |-> [kind |-> "undefined", n |-> 0],
     key_topics |-> [kind |-> "undefined", items |-> <<>>]]

NoPayload == [TextPayload EXCEPT !.kind = "none", !.text = ""]

NoResponse == [success |-> Null, error |-> Null]

\* Nothing has settled yet.
NoSettlement == [kind |-> "none", data |-> NullData]

VARIABLES
    file,       \* useState: the held file, or NoFile
    loading,    \* useState: a request is being processed
    result,     \* useState: the stored response.data, or NullData
    error,      \* useState: the error banner's text, "" when none
    inflight,   \* the files carried by the POST requests not yet settled
    selected,   \* e.target.files[0] of the last change event, or NoFile
    response,   \* how the last awaited axios.post settled
    lastOp,     \* the handler that ran last
    srvPc,      \* backend: where the request handler stands
    srvVerdict, \* backend: the Gatekeeper's ValidationVerdict for the request
    staged,     \* backend: the staged temporary file, or NoFile
    srvTranscript, \* backend: the transcript obtained, <<>> before
    srvPayload, \* backend: what the summarization call returned
    srvResp     \* backend: the response body sent

cvars == <<file, loading, result, error, inflight, selected, response, lastOp>>
svars == <<srvPc, srvVerdict, staged, srvTranscript, srvPayload, srvResp>>
vars == <<file, loading, result, error, inflight, selected, response, lastOp,
          srvPc, srvVerdict, staged, srvTranscript, srvPayload, srvResp>>

Init ==
    /\ file = NoFile
    /\ loading = FALSE
    /\ result = NullData
    /\ error = ""
    /\ inflight = <<>>
    /\ selected = NoFile
    /\ response = NoSettlement
    /\ lastOp = "mount"
    /\ srvPc = "idle"
    /\ srvVerdict = "none"
    /\ staged = NoFile
    /\ srvTranscript = <<>>
    /\ srvPayload = NoPayload
    /\ srvResp = NoResponse

\* ------------------------------------------------------- handleFileChange
fileExtension(f) ==
    LET fileName == toLowerCase(f.name)
    IN  substring(fileName, lastIndexOf(fileName, "."))

ExtensionAllowed(f) == fileExtension(f) \in allowedExtensions

\* Mutant: the limit itself is refused.
SizeAllowed_exclusive(f) == f.size < MaxFileSize

SizeAllowed(f) == ~(f.size > MaxFileSize)

\* Mutant: the size is checked before the extension.
handleFileChange_sizeFirst(selectedFile) ==
    /\ selected' = selectedFile
    /\ lastOp' = "handleFileChange"
    /\ IF selectedFile # NoFile
       THEN IF ~SizeAllowed(selectedFile)
            THEN /\ error' = ErrSize
                 /\ file' = NoFile
            ELSE IF ~ExtensionAllowed(selectedFile)
                 THEN /\ error' = ErrFormat
                      /\ file' = NoFile
                 ELSE /\ file' = selectedFile
                      /\ error' = ""
       ELSE UNCHANGED <<file, error>>
    /\ UNCHANGED <<loading, result, inflight, response>>

handleFileChange(selectedFile) ==
    /\ selected' = selectedFile
    /\ lastOp' = "handleFileChange"
    /\ IF selectedFile # NoFile
       THEN IF ~ExtensionAllowed(selectedFile)
            THEN /\ error' = ErrFormat
                 /\ file' = NoFile
            ELSE IF ~SizeAllowed(selectedFile)
                 THEN /\ error' = ErrSize
                      /\ file' = NoFile
                 ELSE /\ file' = selectedFile
                      /\ error' = ""
       ELSE UNCHANGED <<file, error>>
    /\ UNCHANGED <<loading, result, inflight, response>>

\* ------------------------------------------------------------ handleUpload
\* Mutant: the request is posted without testing that a file is held.
handleUpload_noFileTest ==
    /\ lastOp' = "handleUpload"
    /\ loading' = TRUE
    /\ error' = ""
    /\ result' = NullData
    /\ inflight' = Append(inflight, file)
    /\ UNCHANGED <<file, selected, response>>

\* Mutant: a new attempt leaves the previous error in place.
handleUpload_keepsError ==
    /\ lastOp' = "handleUpload"
    /\ IF file = NoFile
       THEN /\ error' = ErrNoFile
            /\ UNCHANGED <<loading, result, inflight>>
       ELSE /\ loading' = TRUE
            /\ result' = NullData
            /\ inflight' = Append(inflight, file)
            /\ UNCHANGED error
    /\ UNCHANGED <<file, selected, response>>

\* The synchronous part, up to the await of axios.post.
handleUpload ==
    /\ lastOp' = "handleUpload"
    /\ IF file = NoFile
       THEN /\ error' = ErrNoFile
            /\ UNCHANGED <<loading, result, inflight>>
       ELSE /\ loading' = TRUE
            /\ error' = ""
            /\ result' = NullData
            /\ inflight' = Append(inflight, file)
    /\ UNCHANGED <<file, selected, response>>

\* Mutant: the response is stored before its success flag is looked at.
handleUploadSettled_storesAny(i, s) ==
    /\ i \in 1..Len(inflight)
    /\ inflight' = [j \in 1..(Len(inflight) - 1) |->
                        IF j < i THEN inflight[j] ELSE inflight[j + 1]]
    /\ response' = s
    /\ lastOp' = "settled"
    /\ IF s.kind = "2xx" /\ s.data # NullData
       THEN /\ result' = s.data
            /\ IF Truthy(s.data.success)
               THEN UNCHANGED error
               ELSE error' = OrElse(s.data.error, ErrProcessing)
       ELSE /\ error' = OrElse(IF s.kind = "httpError" THEN s.data.error ELSE Undefined,
                               ErrGeneric)
            /\ UNCHANGED result
    /\ loading' = FALSE
    /\ UNCHANGED <<file, selected>>

\* Mutant: loading is reset in the try block instead of in finally.
handleUploadSettled_noFinally(i, s) ==
    /\ i \in 1..Len(inflight)
    /\ inflight' = [j \in 1..(Len(inflight) - 1) |->
                        IF j < i THEN inflight[j] ELSE inflight[j + 1]]
    /\ response' = s
    /\ lastOp' = "settled"
    /\ IF s.kind = "2xx" /\ s.data # NullData
       THEN /\ IF Truthy(s.data.success)
               THEN /\ result' = s.data
                    /\ UNCHANGED error
               ELSE /\ error' = OrElse(s.data.error, ErrProcessing)
                    /\ UNCHANGED result
            /\ loading' = FALSE
       ELSE /\ error' = OrElse(IF s.kind = "httpError" THEN s.data.error ELSE Undefined,
                               ErrGeneric)
            /\ UNCHANGED <<result, loading>>
    /\ UNCHANGED <<file, selected>>

\* The continuation after the await: try / catch / finally.
handleUploadSettled(i, s) ==
    /\ i \in 1..Len(inflight)
    /\ inflight' = [j \in 1..(Len(inflight) - 1) |->
                        IF j < i THEN inflight[j] ELSE inflight[j + 1]]
    /\ response' = s
    /\ lastOp' = "settled"
    /\ IF s.kind = "2xx" /\ s.data # NullData
       THEN IF Truthy(s.data.success)
            THEN /\ result' = s.data
                 /\ UNCHANGED error
            ELSE /\ error' = OrElse(s.data.error, ErrProcessing)
                 /\ UNCHANGED result
       ELSE /\ error' = OrElse(IF s.kind = "httpError" THEN s.data.error ELSE Undefined,
                               ErrGeneric)
            /\ UNCHANGED result
    /\ loading' = FALSE
    /\ UNCHANGED <<file, selected>>

\* Mutant: the button is disabled only while no file is held.
buttonDisabled_ignoresLoading == file = NoFile

\* The Generate Summary button: disabled={loading || !file}.
buttonDisabled == loading \/ file = NoFile

\* ------------------------------------------------------------ the page
ChooseFile ==
    /\ \E f \in Files : handleFileChange(f)
    /\ UNCHANGED svars

CancelChoice ==
    /\ handleFileChange(NoFile)
    /\ UNCHANGED svars

ClickGenerate ==
    /\ ~buttonDisabled
    /\ Len(inflight) < MaxInFlight
    /\ handleUpload
    /\ UNCHANGED svars

Settle ==
    /\ \E i \in 1..Len(inflight) : \E s \in Settlements : handleUploadSettled(i, s)
    /\ UNCHANGED svars

\* handleUpload called directly, without the button's !file test.
CallUpload ==
    /\ ~loading
    /\ handleUpload
    /\ UNCHANGED svars

Next == ChooseFile \/ CancelChoice \/ ClickGenerate \/ Settle

Spec == Init /\ [][Next]_vars

\* The handlers driven directly: handleUpload also runs when no file is held.
NextHandlers == ChooseFile \/ CancelChoice \/ CallUpload \/ Settle

SpecHandlers == Init /\ [][NextHandlers]_vars

\* Every outstanding request eventually resolves or rejects (at the latest by
\* the 120 s axios timeout).
LiveSpec == Spec /\ WF_vars(Settle)

\* ------------------------------------------------ backend: Gatekeeper
\* The filename's extension: the substring after the last ".", lower-cased;
\* a name without "." has none.
allowed_file(name) ==
    \E i \in 1..Len(name) :
        /\ name[i] = "."
        /\ \A j \in (i + 1)..Len(name) : name[j] # "."
        /\ \E ext \in { <<"m", "p", "3">>, <<"w", "a", "v">>,
                         <<"m", "4", "a">>, <<"f", "l", "a", "c">> } :
              /\ Len(ext) = Len(name) - i
              /\ \A k \in 1..Len(ext) : toLowerCaseChar(name[i + k]) = ext[k]

\* Extension check, size check, presence check; the first failure wins.
Gatekeeper(f) ==
    IF f # NoFile /\ ~allowed_file(f.name) THEN "UnsupportedFormat"
    ELSE IF f # NoFile /\ f.size > MaxFileSize THEN "TooLarge"
    ELSE IF f = NoFile THEN "NoFileProvided"
    ELSE "Accepted"

\* ------------------------------------------------ backend: Normalizer
\* Non-empty tokens of the transcript split on whitespace runs.
WordCount(t) ==
    Cardinality({ i \in 1..Len(t) : t[i] # " " /\ (i = 1 \/ t[i - 1] = " ") })

ListOrDefault(fld) == IF fld.kind = "list" THEN fld.items ELSE <<>>

StringOrDefault(v) == IF v = Undefined THEN "" ELSE v

\* Mutant: the counts are taken from the upstream payload when it has them.
Normalizer_trustsCounts(transcript, raw) ==
    LET keyDecisions == IF raw.kind = "structured" THEN ListOrDefault(raw.key_decisions) ELSE <<>>
        actionItems  == IF raw.kind = "structured" THEN ListOrDefault(raw.action_items) ELSE <<>>
    IN  [success |-> "true",
         error |-> Undefined,
         transcript |-> transcript,
         word_count |-> WordCount(transcript),
         summary |->
           [summary |-> IF raw.kind = "structured" THEN StringOrDefault(raw.summary)
                        ELSE raw.text,
            key_decisions |-> keyDecisions,
            action_items |-> actionItems,
            next_steps |-> IF raw.kind = "structured" THEN ListOrDefault(raw.next_steps)
                           ELSE <<>>,
            meeting_metrics |->
              [total_decisions |-> IF raw.total_decisions.kind = "number"
                                   THEN raw.total_decisions.n ELSE 0,
               total_action_items |-> IF raw.total_action_items.kind = "number"
                                      THEN raw.total_action_items.n ELSE 0,
               key_topics |-> IF raw.kind = "structured" THEN ListOrDefault(raw.key_topics)
                              ELSE <<>>]]]

Normalizer(transcript, raw) ==
    LET keyDecisions == IF raw.kind = "structured" THEN ListOrDefault(raw.key_decisions) ELSE <<>>
        actionItems  == IF raw.kind = "structured" THEN ListOrDefault(raw.action_items) ELSE <<>>
    IN  [success |-> "true",
         error |-> Undefined,
         transcript |-> transcript,
         word_count |-> WordCount(transcript),
         summary |->
           [summary |-> IF raw.kind = "structured" THEN StringOrDefault(raw.summary)
                        ELSE raw.text,
            key_decisions |-> keyDecisions,
            action_items |-> actionItems,
            next_steps |-> IF raw.kind = "structured" THEN ListOrDefault(raw.next_steps)
                           ELSE <<>>,
            meeting_metrics |->
              [total_decisions |-> Len(keyDecisions),
               total_action_items |-> Len(actionItems),
               key_topics |-> IF raw.kind = "structured" THEN ListOrDefault(raw.key_topics)
                              ELSE <<>>]]]

FailureResponse(msg) == [success |-> "false", error |-> msg]

\* ------------------------------------------- backend: request handler
\* Leaving the handler: the scoped temporary file is released and the
\* response goes out.
SrvExit(resp) ==
    /\ staged' = NoFile
    /\ srvResp' = resp
    /\ srvPc' = "responded"

\* POST /api/upload arrives: validate, then stage the accepted file.
SrvReceive(f) ==
    /\ srvPc = "idle"
    /\ srvVerdict' = Gatekeeper(f)
    /\ IF Gatekeeper(f) = "Accepted"
       THEN /\ staged' = f
            /\ srvPc' = "staged"
            /\ UNCHANGED srvResp
       ELSE /\ srvResp' = FailureResponse(Gatekeeper(f))
            /\ srvPc' = "responded"
            /\ UNCHANGED staged
    /\ UNCHANGED <<srvTranscript, srvPayload>>

\* The transcription call returns a transcript.
SrvTranscribed(t) ==
    /\ srvPc = "staged"
    /\ srvTranscript' = t
    /\ srvPc' = "transcribed"
    /\ UNCHANGED <<srvVerdict, staged, srvPayload, srvResp>>

\* Mutant: the failure path answers without releasing the staged file.
SrvTranscriptionFailed_leaks ==
    /\ srvPc = "staged"
    /\ srvResp' = FailureResponse(ErrProcessing)
    /\ srvPc' = "responded"
    /\ UNCHANGED <<srvVerdict, staged, srvTranscript, srvPayload>>

\* The transcription call fails, times out or raises.
SrvTranscriptionFailed ==
    /\ srvPc = "staged"
    /\ SrvExit(FailureResponse(ErrProcessing))
    /\ UNCHANGED <<srvVerdict, srvTranscript, srvPayload>>

\* The summarization call returns; the Normalizer shapes the result.
SrvSummarized(raw) ==
    /\ srvPc = "transcribed"
    /\ srvPayload' = raw
    /\ SrvExit(Normalizer(srvTranscript, raw))
    /\ UNCHANGED <<srvVerdict, srvTranscript>>

\* The summarization provider is unavailable or the call raises.
SrvSummarizationFailed ==
    /\ srvPc = "transcribed"
    /\ SrvExit(FailureResponse(ErrProcessing))
    /\ UNCHANGED <<srvVerdict, srvTranscript, srvPayload>>

\* The handler is ready for the next request.
SrvDone ==
    /\ srvPc = "responded"
    /\ srvPc' = "idle"
    /\ srvVerdict' = "none"
    /\ srvTranscript' = <<>>
    /\ srvPayload' = NoPayload
    /\ srvResp' = NoResponse
    /\ UNCHANGED staged

Receive ==
    /\ \E f \in Files \cup {NoFile} : SrvReceive(f)
    /\ UNCHANGED cvars

Transcribe ==
    /\ \E t \in Transcripts : SrvTranscribed(t)
    /\ UNCHANGED cvars

TranscribeFails ==
    /\ SrvTranscriptionFailed
    /\ UNCHANGED cvars

Summarize ==
    /\ \E raw \in StructuredPayloads \cup {TextPayload} : SrvSummarized(raw)
    /\ UNCHANGED cvars

SummarizeFails ==
    /\ SrvSummarizationFailed
    /\ UNCHANGED cvars

Done ==
    /\ SrvDone
    /\ UNCHANGED cvars

NextServer ==
    Receive \/ Transcribe \/ TranscribeFails \/ Summarize \/ SummarizeFails \/ Done

SpecServer == Init /\ [][NextServer]_vars

\* ---------------------------------------------------------------- claims
\* A file that passes validation as the specification words it.
Validated(f) == allowed_file(f.name) /\ f.size <= 25 * 1024 * 1024

\* The rejection a validation reports: the first failing check's message.
FirstFailure(f) ==
    IF ~allowed_file(f.name) THEN ErrFormat
    ELSE IF f.size > 25 * 1024 * 1024 THEN ErrSize
    ELSE ""

C1_HeldAndSentValidated ==
    /\ file # NoFile => Validated(file)
    /\ \A i \in 1..Len(inflight) : inflight[i] # NoFile /\ Validated(inflight[i])

C1_NoFileNoRequest ==
    (lastOp' = "handleUpload" /\ file = NoFile)
        => (error' = ErrNoFile /\ UNCHANGED <<loading, result, inflight>>)

\* C1: the held file and every file carried by a POST /api/upload passed
\* validation (allowed extension, size at most 25 MiB), and handleUpload with
\* no file held issues no request: it only sets 'Please select an audio file'
\* and leaves loading and result unchanged.
C1_UploadCarriesValidatedFile ==
    [] C1_HeldAndSentValidated /\ [][C1_NoFileNoRequest]_vars

C1_Witness ==
    /\ lastOp = "handleUpload"
    /\ file = NoFile
    /\ error = ErrNoFile
    /\ result # NullData

\* C2: after a selection whose name has an extension outside
\* {mp3, wav, m4a, flac} (or no '.'), no file is held and the unsupported-format
\* error is set; a name with an allowed extension, in any letter case, is not
\* refused for its format.
C2_UnsupportedFormatRejected ==
    (lastOp = "handleFileChange" /\ selected # NoFile) =>
        /\ ~allowed_file(selected.name) => (file = NoFile /\ error = ErrFormat)
        /\ allowed_file(selected.name) => error # ErrFormat

C2_Witness ==
    /\ lastOp = "handleFileChange"
    /\ selected.name = <<"m", "p", "3">>
    /\ file = NoFile
    /\ error = ErrFormat

\* C3: for a selection with an allowed extension, a size above 25 MiB leaves no
\* file held and sets the size error; a size of 25 MiB or less makes the
\* selection the held file and clears the error.
C3_SizeLimit ==
    (lastOp = "handleFileChange" /\ selected # NoFile /\ allowed_file(selected.name)) =>
        IF selected.size > 25 * 1024 * 1024
        THEN file = NoFile /\ error = ErrSize
        ELSE file = selected /\ error = ""

C3_Witness ==
    /\ lastOp = "handleFileChange"
    /\ selected.size = 25 * 1024 * 1024
    /\ file = selected
    /\ error = ""

\* C4: a validation reports the reason of the first failing check only, in the
\* order extension, size, presence: a selection with a disallowed extension and
\* a size over 25 MiB gets the unsupported-format reason, and the missing-file
\* reason is reported by an upload exactly when no file is held.
C4_FirstFailureWins ==
    /\ (lastOp = "handleFileChange" /\ selected # NoFile) => error = FirstFailure(selected)
    /\ lastOp = "handleUpload" => (error = ErrNoFile <=> file = NoFile)
    /\ lastOp = "handleUpload" => error \in {ErrNoFile, ""}

C4_Witness ==
    /\ lastOp = "handleFileChange"
    /\ ~allowed_file(selected.name)
    /\ selected.size > 25 * 1024 * 1024
    /\ error = ErrFormat

\* C5: when a 2xx response whose success flag is not true has just settled,
\* result is still null and error is the response's error message, or
\* 'Processing failed' when that is missing or empty; a stored result always
\* has success = true.
C5_FailureByFlag ==
    /\ (lastOp = "settled" /\ response.kind = "2xx" /\ response.data # NullData
          /\ response.data.success # "true") =>
            /\ result = NullData
            /\ error # ""
            /\ error = IF response.data.error \in {Undefined, ""}
                       THEN "Processing failed" ELSE response.data.error
    /\ (lastOp = "settled" /\ response.kind = "2xx" /\ response.data # NullData
          /\ response.data.success = "true") => result = response.data
    /\ result # NullData => result.success = "true"

C5_Witness ==
    /\ lastOp = "settled"
    /\ response.kind = "2xx"
    /\ response.data.success = "false"
    /\ response.data.error = ""
    /\ error = ErrProcessing
    /\ result = NullData

\* C6: once the response of a request with an Accepted verdict has been sent,
\* its staged temporary file no longer exists, whichever exit was taken.
C6_StagedFileReleased ==
    (srvPc = "responded" /\ srvVerdict = "Accepted") => staged = NoFile

C6_Witness ==
    /\ srvPc = "responded"
    /\ srvVerdict = "Accepted"
    /\ srvResp.success = "false"
    /\ srvTranscript = <<>>
    /\ staged = NoFile

C8_ResultXorError == result # NullData => error = ""

\* C8, amended: a result is held only together with no error or with one of
\* the two file-selection messages; an upload's own error never stands next to
\* a result.
C8_ResultOnlyWithSelectionError ==
    result # NullData => error \in {"", ErrFormat, ErrSize}

C8_Witness ==
    /\ result # NullData
    /\ error = ErrFormat
    /\ lastOp = "settled"

\* C9: every upload attempt that sets loading eventually resets it, however the
\* request settles, and loading is false whenever no request is outstanding.
C9_LoadingReset ==
    (loading ~> ~loading) /\ [](inflight = <<>> => ~loading)

C9_Witness ==
    /\ lastOp = "settled"
    /\ response.kind = "timeout"
    /\ ~loading
    /\ error = ErrGeneric

C10_OneInFlight ==
    /\ Len(inflight) <= 1
    /\ inflight # <<>> => (loading /\ result = NullData)

C10_StartOnlyWhenEnabled ==
    Len(inflight') > Len(inflight) => (~loading /\ file # NoFile)

\* C10: at most one request is outstanding; a request starts only when loading
\* is false and a file is held; while it is outstanding loading is true and
\* result is null.
C10_SingleRequest ==
    [] C10_OneInFlight /\ [][C10_StartOnlyWhenEnabled]_vars

C10_Witness ==
    /\ Len(inflight) = 1
    /\ lastOp = "handleFileChange"
    /\ file = NoFile
    /\ loading

====
